---- MODULE Spec2Model ----
(***************************************************************************)
(* awskillswitch: the remediation request handler (HandleRequest), the     *)
(* configuration loader (loadConfig) and the two executors (applySCP,      *)
(* manageRole) of awskillswitch.go, together with the three capability     *)
(* providers they call (STS role assumption, IAM, Organizations) and the   *)
(* configuration file they read.                                           *)
(*                                                                         *)
(* One invocation is a sequence of steps: the validation and dispatch of   *)
(* HandleRequest, the read of switch.conf, and then one step per SDK call. *)
(* Every SDK call may be failed by the provider; the first SDK call of an  *)
(* invocation is the one that retrieves the assumed-role credentials.      *)
(***************************************************************************)
EXTENDS Integers, Sequences, FiniteSets, TLC

\* ------------------------------------------------------------ constants
ApplySCP == "apply_scp"
DeleteRole == "delete_role"
DetachPolicies == "detach_policies"
DefaultRegion == "us-east-1"
ConfigFileName == "switch.conf"
ScpDescription == "Highly Restrictive SCP"
ScpName == "HighlyRestrictiveSCP"
ScpType == "SERVICE_CONTROL_POLICY"

\* A Go nil error.
Nil == "<nil>"

\* ------------------------------------------------------------ bounds
\* Managed policies an identity may hold at the start.
MaxManaged == 3
\* Inline policies an identity may hold at the start.
MaxInline == 3
\* Items the provider returns in one response of an enumeration.
PageSize == 2

ManagedPool ==
  << "arn:aws:iam::aws:policy/A", "arn:aws:iam::aws:policy/B",
     "arn:aws:iam::aws:policy/C", "arn:aws:iam::aws:policy/D",
     "arn:aws:iam::aws:policy/E" >>
InlinePool == << "inlineA", "inlineB", "inlineC", "inlineD", "inlineE" >>
PolicyArns == { ManagedPool[i] : i \in 1..MaxManaged }
InlineNames == { InlinePool[i] : i \in 1..MaxInline }

TargetAcct == "111111111111"
MgmtAcct == "999999999999"
AssumeRoleName == "KillSwitchRole"
VictimRole == "victim"
OtherAcct == "222222222222"
OtherRole == "bystander"
OtherRegion == "eu-west-1"
PolicyIds == << "p-0001", "p-0002", "p-0003" >>

\* The policy document held by a well-formed switch.conf.
ScpDocument == "{\"Version\":\"2012-10-17\",\"Statement\":[{\"Effect\":\"Deny\",\"Action\":\"*\",\"Resource\":\"*\"}]}"

Actions == { ApplySCP, DeleteRole, DetachPolicies, "terminate_all", "" }

Requests ==
  [ Action : Actions,
    TargetAccountID : { "", TargetAcct },
    RoleToAssume : { "", AssumeRoleName },
    TargetRoleName : { "", VictimRole },
    OrgManagementAccountID : { "", MgmtAcct },
    Region : { "", DefaultRegion, OtherRegion } ]

\* ------------------------------------------------------------ strings
HasPrefix(s, pre) == Len(s) >= Len(pre) /\ SubSeq(s, 1, Len(pre)) = pre
HasSuffix(s, suf) ==
  Len(s) >= Len(suf) /\ SubSeq(s, Len(s) - Len(suf) + 1, Len(s)) = suf
Contains(s, sub) ==
  \E i \in 0..(Len(s) - Len(sub)) : SubSeq(s, i + 1, i + Len(sub)) = sub


Min(a, b) == IF a < b THEN a ELSE b

\* The sequences of n distinct elements of S: the orders in which a provider
\* may enumerate n of the elements of S.
Orderings(S, n) ==
  { s \in [1..n -> S] : \A i, j \in 1..n : i # j => s[i] # s[j] }

\* ------------------------------------------------------------ state
VARIABLES
  inv,    \* the invocations of HandleRequest, each a record (see Start)
  iam,    \* IAM: for each <<account, role name>>, the role and its policies
  iam0,   \* history: iam as it was when the invocations started
  org,    \* Organizations: the policies created and their attachments
  solo    \* history: for each invocation, the run it makes of its request
          \* with the providers to itself: its record, its IAM, its Organizations

vars == << inv, iam, iam0, org, solo >>

\* ------------------------------------------------------------ HandleRequest
\* fmt.Sprintf("arn:aws:iam::%s:role/%s", account, role)
RoleArn(account, role) == "arn:aws:iam::" \o account \o ":role/" \o role

ErrRequired == "targetAccountID and roleToAssume are required"
ErrManagementAccount == "managementAccount is required for apply_scp action"
ErrTargetRoleName ==
  "targetRoleName is required for delete_role and detach_policies actions"
ErrInvalidAction == "invalid action"

\* session.NewSession: the errors it may return, by the environment of the
\* process (none; a custom CA bundle, named by AWS_CA_BUNDLE, that cannot be
\* read).
ErrSession == "LoadCustomCABundleError: unable to load custom CA bundle"
SessionErrs == { Nil, ErrSession }

\* An invocation that has received its request and has not run yet.
Start(request) ==
  [ pc |-> "start",
    request |-> request,
    region |-> "",            \* the region of the session, once created
    credsArn |-> "",          \* the role the credentials are to be minted for
    hasCreds |-> FALSE,       \* the credentials were retrieved
    assumed |-> << >>,        \* the AssumeRole calls made, by role ARN
    configReads |-> 0,        \* the reads of switch.conf
    scpPolicy |-> "",         \* config.SwitchPolicies.SCPolicy
    attachedPolicies |-> << >>,   \* listPoliciesOutput.AttachedPolicies
    policyNames |-> << >>,        \* listInlinePoliciesOutput.PolicyNames
    i |-> 1,                  \* the position of the running range loop
    policyId |-> "",          \* policyResp.Policy.PolicySummary.Id
    calls |-> << >>,          \* the SDK calls made, in order
    msg |-> "",               \* the returned string
    err |-> Nil,              \* the returned error
    sessionErr |-> Nil,       \* what session.NewSession returns in this process
    panic |-> Nil ]           \* the value the handler panicked with

\* The same, in a process where session.NewSession returns sessionErr.
StartIn(request, sessionErr) ==
  [ Start(request) EXCEPT !.sessionErr = sessionErr ]

\* return msg, err
Return(r, msg, err) == [ r EXCEPT !.pc = "done", !.msg = msg, !.err = err ]

\* panic(value): the handler is left without a returned string or error.
Panic(r, value) == [ r EXCEPT !.pc = "panicked", !.panic = value ]

\* Seeded fault: no default is substituted.
SessionRegion_NoDefault(request) == request.Region

\* The region the session is created with (lines 50-56).
SessionRegion(request) ==
  IF request.Region = "" THEN DefaultRegion ELSE request.Region

\* Seeded fault: only the target account is checked.
MissingRequired_TargetOnly(request) == request.TargetAccountID = ""
\* Line 45: a field required of every request is empty.
MissingRequired(request) ==
  request.TargetAccountID = "" \/ request.RoleToAssume = ""

\* Seeded fault: the field of the other actions is checked.
MissingManagementAccount_TargetRole(request) == request.TargetRoleName = ""
\* Seeded fault: apply_scp requires the field of the role actions as well.
MissingManagementAccount_Either(request) ==
  request.OrgManagementAccountID = "" \/ request.TargetRoleName = ""
\* Line 60: the field required of apply_scp is empty.
MissingManagementAccount(request) == request.OrgManagementAccountID = ""

\* Seeded fault: the field of apply_scp is checked.
MissingTargetRoleName_Management(request) == request.OrgManagementAccountID = ""
\* Line 71: the field required of detach_policies and delete_role is empty.
MissingTargetRoleName(request) == request.TargetRoleName = ""

\* Seeded fault: every action but apply_scp is taken for a role action.
IsRoleAction_Default(action) == action # ApplySCP
\* Line 70: case DetachPolicies, DeleteRole.
IsRoleAction(action) == action \in { DetachPolicies, DeleteRole }

\* HandleRequest up to the call of loadConfig, applySCP or manageRole: the
\* invocation after the checks and the switch on the action.
HandleRequest(r) ==
  LET request == r.request IN
  IF MissingRequired(request)
  THEN Return(r, "", ErrRequired)
  ELSE LET s == [ r EXCEPT !.region = SessionRegion(request) ] IN
    IF r.sessionErr # Nil
    THEN Panic(s, r.sessionErr)     \* line 54: session.Must
    ELSE
    CASE request.Action = ApplySCP ->
           IF MissingManagementAccount(request)
           THEN Return(s, "", ErrManagementAccount)
           ELSE [ s EXCEPT !.pc = "load_config" ]
      [] IsRoleAction(request.Action) ->
           IF MissingTargetRoleName(request)
           THEN Return(s, "", ErrTargetRoleName)
           ELSE [ s EXCEPT !.pc = "list_attached",
                           !.credsArn = RoleArn(request.TargetAccountID,
                                                request.RoleToAssume) ]
      [] OTHER -> Return(s, "", ErrInvalidAction)

Dispatch(p) ==
  /\ inv[p].pc = "start"
  /\ inv' = [ inv EXCEPT ![p] = HandleRequest(@) ]
  /\ UNCHANGED << iam, iam0, org >>

\* ------------------------------------------------------------ loadConfig
\* The states of the file switch.conf: absent, or present with a content.
BadJson == "scpPolicy = deny"
EmptyJson == "{}"
GoodJson ==
  "{\"switchConfigVersion\":\"1\",\"switchPolicies\":{\"scpPolicy\":"
    \o ScpDocument \o "}}"
ConfigFiles ==
  { [ present |-> FALSE, content |-> "" ] }
    \cup { [ present |-> TRUE, content |-> c ] : c \in { BadJson, EmptyJson, GoodJson } }

\* os.ReadFile(filename)
ReadFile(filename, file) ==
  IF file.present
  THEN [ data |-> file.content, err |-> Nil ]
  ELSE [ data |-> "", err |-> "open " \o filename \o ": no such file or directory" ]

\* json.Unmarshal(configFile, &config), on the contents of ConfigFiles: the
\* raw scpPolicy member of switchPolicies, empty when the member is absent.
Unmarshal(data) ==
  IF data = GoodJson THEN [ SCPolicy |-> ScpDocument, err |-> Nil ]
  ELSE IF data = EmptyJson THEN [ SCPolicy |-> "", err |-> Nil ]
  ELSE [ SCPolicy |-> "", err |-> "invalid character 's' looking for beginning of value" ]

loadConfig(filename, file) ==
  LET read == ReadFile(filename, file) IN
  IF read.err # Nil THEN [ SCPolicy |-> "", err |-> read.err ]
  ELSE Unmarshal(read.data)

\* Seeded fault: the role is assumed in the target account.
LoadConfigResult_TargetCreds(r, file) ==
  LET config == loadConfig(ConfigFileName, file)
      s == [ r EXCEPT !.configReads = @ + 1 ] IN
  IF config.err # Nil
  THEN Return(s, "", "error loading config file: " \o config.err)
  ELSE [ s EXCEPT !.pc = "create_policy",
                  !.scpPolicy = config.SCPolicy,
                  !.credsArn = RoleArn(r.request.TargetAccountID,
                                       r.request.RoleToAssume) ]

\* Seeded fault: the error of loadConfig is dropped.
LoadConfigResult_IgnoreErr(r, file) ==
  LET config == loadConfig(ConfigFileName, file)
      s == [ r EXCEPT !.configReads = @ + 1 ] IN
  [ s EXCEPT !.pc = "create_policy",
             !.scpPolicy = config.SCPolicy,
             !.credsArn = RoleArn(r.request.OrgManagementAccountID,
                                  r.request.RoleToAssume) ]

\* HandleRequest, lines 64-69: the read of switch.conf and the call of applySCP
\* up to its first SDK call.
LoadConfigResult(r, file) ==
  LET config == loadConfig(ConfigFileName, file)
      s == [ r EXCEPT !.configReads = @ + 1 ] IN
  IF config.err # Nil
  THEN Return(s, "", "error loading config file: " \o config.err)
  ELSE [ s EXCEPT !.pc = "create_policy",
                  !.scpPolicy = config.SCPolicy,
                  !.credsArn = RoleArn(r.request.OrgManagementAccountID,
                                       r.request.RoleToAssume) ]

LoadConfig(p) ==
  /\ inv[p].pc = "load_config"
  /\ \E file \in ConfigFiles :
       inv' = [ inv EXCEPT ![p] = LoadConfigResult(@, file) ]
  /\ UNCHANGED << iam, iam0, org >>

\* ------------------------------------------------------------ providers
\* What a provider may do with one SDK call: serve it, refuse the role
\* assumption the call's signing starts (only while the invocation holds no
\* credentials yet), or fail the call itself.
Faults(r) ==
  { "none", "service_failure" }
    \cup (IF r.hasCreds THEN { } ELSE { "assume_refused" })

ErrAssumeRefused == "AccessDenied: not authorized to perform sts:AssumeRole"
ErrServiceFailure == "ServiceFailure: internal error"
ErrNoSuchEntity == "NoSuchEntity: not found"
ErrDeleteConflict == "DeleteConflict: must detach all policies first"
ErrInvalidParameter == "InvalidParameter: minimum field size of 1, CreatePolicyInput.Content"
ErrDuplicatePolicy == "DuplicatePolicyException: a policy with the same name already exists"
ErrPolicyNotFound == "PolicyNotFoundException: no such policy"
ErrDuplicateAttachment == "DuplicatePolicyAttachmentException: already attached"

FaultErr(fault) ==
  IF fault = "assume_refused" THEN ErrAssumeRefused ELSE ErrServiceFailure

\* stscreds.NewCredentials makes no call: the credentials are retrieved, by one
\* AssumeRole call for credsArn, when the first request is signed, and are
\* kept for the later requests of the invocation.
Sign(r, fault) ==
  IF r.hasCreds THEN r
  ELSE [ r EXCEPT !.assumed = Append(@, r.credsArn),
                  !.hasCreds = (fault # "assume_refused") ]

\* The record of one SDK call in an invocation's history.
Call(r, op, target, item, err) ==
  [ op |-> op, creds |-> r.credsArn, target |-> target, item |-> item,
    ok |-> (err = Nil), err |-> err ]

Logged(r, op, target, item, err) ==
  [ r EXCEPT !.calls = Append(@, Call(r, op, target, item, err)) ]

NoRole == [ exists |-> FALSE, attached |-> { }, inline |-> { } ]
RoleOf(state, k) == IF k \in DOMAIN state THEN state[k] ELSE NoRole
WithRole(state, k, role) ==
  IF k \in DOMAIN state THEN [ state EXCEPT ![k] = role ] ELSE state

\* iam:ListAttachedRolePolicies without Marker: the responses the provider may
\* give, each the first page of the role's attachments in an order it chooses.
IamListAttachedRolePolicies(state, k) ==
  LET role == RoleOf(state, k) IN
  IF ~role.exists
  THEN { [ err |-> ErrNoSuchEntity, items |-> << >>, truncated |-> FALSE ] }
  ELSE { [ err |-> Nil, items |-> s,
           truncated |-> Cardinality(role.attached) > PageSize ] :
         s \in Orderings(role.attached, Min(PageSize, Cardinality(role.attached))) }

\* iam:ListRolePolicies without Marker.
IamListRolePolicies(state, k) ==
  LET role == RoleOf(state, k) IN
  IF ~role.exists
  THEN { [ err |-> ErrNoSuchEntity, items |-> << >>, truncated |-> FALSE ] }
  ELSE { [ err |-> Nil, items |-> s,
           truncated |-> Cardinality(role.inline) > PageSize ] :
         s \in Orderings(role.inline, Min(PageSize, Cardinality(role.inline))) }

\* Seeded fault: the detach of a policy that is not attached is answered as done.
IamDetachRolePolicy_Idempotent(state, k, arn) ==
  LET role == RoleOf(state, k) IN
  IF ~role.exists
  THEN [ err |-> ErrNoSuchEntity, state |-> state ]
  ELSE [ err |-> Nil,
         state |-> WithRole(state, k, [ role EXCEPT !.attached = @ \ { arn } ]) ]

\* iam:DetachRolePolicy
IamDetachRolePolicy(state, k, arn) ==
  LET role == RoleOf(state, k) IN
  IF ~role.exists \/ arn \notin role.attached
  THEN [ err |-> ErrNoSuchEntity, state |-> state ]
  ELSE [ err |-> Nil,
         state |-> WithRole(state, k, [ role EXCEPT !.attached = @ \ { arn } ]) ]

\* iam:DeleteRolePolicy
IamDeleteRolePolicy(state, k, name) ==
  LET role == RoleOf(state, k) IN
  IF ~role.exists \/ name \notin role.inline
  THEN [ err |-> ErrNoSuchEntity, state |-> state ]
  ELSE [ err |-> Nil,
         state |-> WithRole(state, k, [ role EXCEPT !.inline = @ \ { name } ]) ]

\* iam:DeleteRole
IamDeleteRole(state, k) ==
  LET role == RoleOf(state, k) IN
  IF ~role.exists THEN [ err |-> ErrNoSuchEntity, state |-> state ]
  ELSE IF role.attached # { } \/ role.inline # { }
  THEN [ err |-> ErrDeleteConflict, state |-> state ]
  ELSE [ err |-> Nil, state |-> WithRole(state, k, NoRole) ]

\* organizations:CreatePolicy
OrgCreatePolicy(state, content, description, name, type) ==
  IF \E pol \in state.policies : pol.name = name
  THEN [ err |-> ErrDuplicatePolicy, id |-> "", state |-> state ]
  ELSE LET id == PolicyIds[Cardinality(state.policies) + 1] IN
       [ err |-> Nil, id |-> id,
         state |-> [ state EXCEPT !.policies = @ \cup
                       { [ id |-> id, content |-> content, name |-> name,
                           description |-> description, type |-> type ] } ] ]

\* organizations:AttachPolicy
OrgAttachPolicy(state, policyId, targetId) ==
  IF ~ \E pol \in state.policies : pol.id = policyId
  THEN [ err |-> ErrPolicyNotFound, state |-> state ]
  ELSE IF << policyId, targetId >> \in state.attachments
  THEN [ err |-> ErrDuplicateAttachment, state |-> state ]
  ELSE [ err |-> Nil,
         state |-> [ state EXCEPT !.attachments = @ \cup { << policyId, targetId >> } ] ]

\* ------------------------------------------------------------ applySCP
\* Seeded fault: the error of CreatePolicy is dropped.
AfterCreatePolicy_IgnoreErr(r, err, id) ==
  [ r EXCEPT !.pc = "attach_policy", !.policyId = id ]

\* applySCP after svc.CreatePolicy returned (lines 109-118).
AfterCreatePolicy(r, err, id) ==
  IF err # Nil
  THEN Return(r, "", "error creating SCP: " \o err)
  ELSE [ r EXCEPT !.pc = "attach_policy", !.policyId = id ]

\* Seeded fault: the attach failure is reported as success.
AfterAttachPolicy_Swallow(r, err) ==
  Return(r, "SCP applied to account " \o r.request.TargetAccountID
              \o " with policy ID " \o r.policyId, Nil)

\* applySCP after svc.AttachPolicy returned (lines 120-125).
AfterAttachPolicy(r, err) ==
  IF err # Nil
  THEN Return(r, "", "error attaching SCP to account "
                       \o r.request.TargetAccountID \o ": " \o err)
  ELSE Return(r, "SCP applied to account " \o r.request.TargetAccountID
                   \o " with policy ID " \o r.policyId, Nil)

\* svc.CreatePolicy(createPolicyInput): an empty Content is rejected by the
\* SDK before the request is signed.
CreatePolicy(p) ==
  /\ inv[p].pc = "create_policy"
  /\ \E fault \in Faults(inv[p]) :
       LET r == inv[p]
           invalid == r.scpPolicy = ""
           signed == IF invalid THEN r ELSE Sign(r, fault)
           resp == OrgCreatePolicy(org, r.scpPolicy, ScpDescription, ScpName, ScpType)
           err == IF invalid THEN ErrInvalidParameter
                  ELSE IF fault # "none" THEN FaultErr(fault) ELSE resp.err
       IN /\ inv' = [ inv EXCEPT ![p] =
                        AfterCreatePolicy(
                          Logged(signed, "CreatePolicy", "", r.scpPolicy, err),
                          err, resp.id) ]
          /\ org' = IF err = Nil THEN resp.state ELSE org
  /\ UNCHANGED << iam, iam0 >>

\* svc.AttachPolicy(attachPolicyInput)
AttachPolicy(p) ==
  /\ inv[p].pc = "attach_policy"
  /\ \E fault \in Faults(inv[p]) :
       LET r == inv[p]
           resp == OrgAttachPolicy(org, r.policyId, r.request.TargetAccountID)
           err == IF fault # "none" THEN FaultErr(fault) ELSE resp.err
       IN /\ inv' = [ inv EXCEPT ![p] =
                        AfterAttachPolicy(
                          Logged(Sign(r, fault), "AttachPolicy",
                                 r.request.TargetAccountID, r.policyId, err),
                          err) ]
          /\ org' = IF err = Nil THEN resp.state ELSE org
  /\ UNCHANGED << iam, iam0 >>

\* ------------------------------------------------------------ manageRole
\* The identity an invocation of manageRole works on.
RoleKey(r) == << r.request.TargetAccountID, r.request.TargetRoleName >>

InRoleInAccount(r) ==
  r.request.TargetRoleName \o " in account " \o r.request.TargetAccountID

\* manageRole after both range loops (lines 167-175): the DeleteRole call is
\* next for delete_role, the return for detach_policies.
AfterLoops(r) ==
  IF r.request.Action = DeleteRole
  THEN [ r EXCEPT !.pc = "delete_role" ]
  ELSE Return(r, "Policies detached from role " \o InRoleInAccount(r), Nil)

\* Seeded fault: the error of the enumeration is dropped.
AfterListAttached_IgnoreErr(r, err, items) ==
  [ r EXCEPT !.attachedPolicies = items, !.i = 1,
             !.pc = IF items = << >> THEN "list_inline" ELSE "detach" ]

\* manageRole after svc.ListAttachedRolePolicies returned (lines 134-140).
AfterListAttached(r, err, items) ==
  IF err # Nil
  THEN Return(r, "", "error listing attached policies for role "
                       \o InRoleInAccount(r) \o ": " \o err)
  ELSE [ r EXCEPT !.attachedPolicies = items, !.i = 1,
                  !.pc = IF items = << >> THEN "list_inline" ELSE "detach" ]

\* Seeded fault: a failed detach is skipped and the loop goes on.
AfterDetach_Continue(r, err) ==
  [ r EXCEPT !.i = @ + 1,
             !.pc = IF r.i + 1 > Len(r.attachedPolicies)
                    THEN "list_inline" ELSE "detach" ]

\* manageRole after svc.DetachRolePolicy returned (lines 141-148).
AfterDetach(r, err) ==
  IF err # Nil
  THEN Return(r, "", "error detaching policy " \o r.attachedPolicies[r.i]
                       \o " from role " \o InRoleInAccount(r) \o ": " \o err)
  ELSE [ r EXCEPT !.i = @ + 1,
                  !.pc = IF r.i + 1 > Len(r.attachedPolicies)
                         THEN "list_inline" ELSE "detach" ]

\* manageRole after svc.ListRolePolicies returned (lines 151-157).
AfterListInline(r, err, names) ==
  IF err # Nil
  THEN Return(r, "", "error listing inline policies for role "
                       \o InRoleInAccount(r) \o ": " \o err)
  ELSE LET s == [ r EXCEPT !.policyNames = names, !.i = 1 ] IN
       IF names = << >> THEN AfterLoops(s) ELSE [ s EXCEPT !.pc = "delete_inline" ]

\* Seeded fault: the loop goes on after a failed DeleteRolePolicy.
AfterDeleteInline_Continue(r, err) ==
  LET s == [ r EXCEPT !.i = @ + 1 ] IN
  IF s.i > Len(r.policyNames) THEN AfterLoops(s) ELSE s

\* manageRole after svc.DeleteRolePolicy returned (lines 158-165).
AfterDeleteInline(r, err) ==
  IF err # Nil
  THEN Return(r, "", "error deleting inline policy " \o r.policyNames[r.i]
                       \o " from role " \o InRoleInAccount(r) \o ": " \o err)
  ELSE LET s == [ r EXCEPT !.i = @ + 1 ] IN
       IF s.i > Len(r.policyNames) THEN AfterLoops(s) ELSE s

\* Seeded fault: the error of DeleteRole is dropped.
AfterDeleteRole_Swallow(r, err) ==
  Return(r, "Role " \o r.request.TargetRoleName
              \o " and its policies are detached and deleted in account "
              \o r.request.TargetAccountID, Nil)

\* manageRole after svc.DeleteRole returned (lines 169-173).
AfterDeleteRole(r, err) ==
  IF err # Nil
  THEN Return(r, "", "error deleting role " \o InRoleInAccount(r) \o ": " \o err)
  ELSE Return(r, "Role " \o r.request.TargetRoleName
                   \o " and its policies are detached and deleted in account "
                   \o r.request.TargetAccountID, Nil)

\* svc.ListAttachedRolePolicies(RoleName: targetRoleName)
ListAttached(p) ==
  /\ inv[p].pc = "list_attached"
  /\ \E fault \in Faults(inv[p]) :
     \E resp \in IamListAttachedRolePolicies(iam, RoleKey(inv[p])) :
       LET r == inv[p]
           err == IF fault # "none" THEN FaultErr(fault) ELSE resp.err
       IN inv' = [ inv EXCEPT ![p] =
                     AfterListAttached(
                       Logged(Sign(r, fault), "ListAttachedRolePolicies",
                              r.request.TargetRoleName, "", err),
                       err, resp.items) ]
  /\ UNCHANGED << iam, iam0, org >>

\* svc.DetachRolePolicy(RoleName: targetRoleName, PolicyArn: policy.PolicyArn)
Detach(p) ==
  /\ inv[p].pc = "detach"
  /\ \E fault \in Faults(inv[p]) :
       LET r == inv[p]
           arn == r.attachedPolicies[r.i]
           resp == IamDetachRolePolicy(iam, RoleKey(r), arn)
           err == IF fault # "none" THEN FaultErr(fault) ELSE resp.err
       IN /\ inv' = [ inv EXCEPT ![p] =
                        AfterDetach(
                          Logged(Sign(r, fault), "DetachRolePolicy",
                                 r.request.TargetRoleName, arn, err),
                          err) ]
          /\ iam' = IF err = Nil THEN resp.state ELSE iam
  /\ UNCHANGED << iam0, org >>

\* svc.ListRolePolicies(RoleName: targetRoleName)
ListInline(p) ==
  /\ inv[p].pc = "list_inline"
  /\ \E fault \in Faults(inv[p]) :
     \E resp \in IamListRolePolicies(iam, RoleKey(inv[p])) :
       LET r == inv[p]
           err == IF fault # "none" THEN FaultErr(fault) ELSE resp.err
       IN inv' = [ inv EXCEPT ![p] =
                     AfterListInline(
                       Logged(Sign(r, fault), "ListRolePolicies",
                              r.request.TargetRoleName, "", err),
                       err, resp.items) ]
  /\ UNCHANGED << iam, iam0, org >>

\* svc.DeleteRolePolicy(RoleName: targetRoleName, PolicyName: policyName)
DeleteInline(p) ==
  /\ inv[p].pc = "delete_inline"
  /\ \E fault \in Faults(inv[p]) :
       LET r == inv[p]
           name == r.policyNames[r.i]
           resp == IamDeleteRolePolicy(iam, RoleKey(r), name)
           err == IF fault # "none" THEN FaultErr(fault) ELSE resp.err
       IN /\ inv' = [ inv EXCEPT ![p] =
                        AfterDeleteInline(
                          Logged(Sign(r, fault), "DeleteRolePolicy",
                                 r.request.TargetRoleName, name, err),
                          err) ]
          /\ iam' = IF err = Nil THEN resp.state ELSE iam
  /\ UNCHANGED << iam0, org >>

\* svc.DeleteRole(RoleName: targetRoleName)
DeleteRoleCall(p) ==
  /\ inv[p].pc = "delete_role"
  /\ \E fault \in Faults(inv[p]) :
       LET r == inv[p]
           resp == IamDeleteRole(iam, RoleKey(r))
           err == IF fault # "none" THEN FaultErr(fault) ELSE resp.err
       IN /\ inv' = [ inv EXCEPT ![p] =
                        AfterDeleteRole(
                          Logged(Sign(r, fault), "DeleteRole",
                                 r.request.TargetRoleName, "", err),
                          err) ]
          /\ iam' = IF err = Nil THEN resp.state ELSE iam
  /\ UNCHANGED << iam0, org >>

\* ------------------------------------------------------------ running alone
\* The steps of one invocation whose providers no other invocation calls: w is
\* its record (w.inv) with the IAM and Organizations it alone works on, and each
\* operator gives what one step of HandleRequest, applySCP or manageRole may
\* make of w.
World(r, iamState, orgState) == [ inv |-> r, iam |-> iamState, org |-> orgState ]

\* HandleRequest, lines 45-76.
DispatchAlone(w) == { World(HandleRequest(w.inv), w.iam, w.org) }

\* loadConfig(ConfigFileName), lines 64-67.
LoadConfigAlone(w) ==
  { World(LoadConfigResult(w.inv, file), w.iam, w.org) : file \in ConfigFiles }

\* svc.CreatePolicy, lines 109-112.
CreatePolicyAlone(w) ==
  { LET r == w.inv
        invalid == r.scpPolicy = ""
        signed == IF invalid THEN r ELSE Sign(r, fault)
        resp == OrgCreatePolicy(w.org, r.scpPolicy, ScpDescription, ScpName, ScpType)
        err == IF invalid THEN ErrInvalidParameter
               ELSE IF fault # "none" THEN FaultErr(fault) ELSE resp.err
    IN World(AfterCreatePolicy(Logged(signed, "CreatePolicy", "", r.scpPolicy, err),
                               err, resp.id),
             w.iam, IF err = Nil THEN resp.state ELSE w.org) :
    fault \in Faults(w.inv) }

\* svc.AttachPolicy, lines 120-123.
AttachPolicyAlone(w) ==
  { LET r == w.inv
        resp == OrgAttachPolicy(w.org, r.policyId, r.request.TargetAccountID)
        err == IF fault # "none" THEN FaultErr(fault) ELSE resp.err
    IN World(AfterAttachPolicy(Logged(Sign(r, fault), "AttachPolicy",
                                      r.request.TargetAccountID, r.policyId, err),
                               err),
             w.iam, IF err = Nil THEN resp.state ELSE w.org) :
    fault \in Faults(w.inv) }

\* svc.ListAttachedRolePolicies, lines 134-137.
ListAttachedAlone(w) ==
  { LET r == w.inv
        err == IF x[1] # "none" THEN FaultErr(x[1]) ELSE x[2].err
    IN World(AfterListAttached(Logged(Sign(r, x[1]), "ListAttachedRolePolicies",
                                      r.request.TargetRoleName, "", err),
                               err, x[2].items),
             w.iam, w.org) :
    x \in Faults(w.inv) \X IamListAttachedRolePolicies(w.iam, RoleKey(w.inv)) }

\* svc.DetachRolePolicy, lines 141-147.
DetachAlone(w) ==
  { LET r == w.inv
        arn == r.attachedPolicies[r.i]
        resp == IamDetachRolePolicy(w.iam, RoleKey(r), arn)
        err == IF fault # "none" THEN FaultErr(fault) ELSE resp.err
    IN World(AfterDetach(Logged(Sign(r, fault), "DetachRolePolicy",
                                r.request.TargetRoleName, arn, err),
                         err),
             IF err = Nil THEN resp.state ELSE w.iam, w.org) :
    fault \in Faults(w.inv) }

\* svc.ListRolePolicies, lines 151-154.
ListInlineAlone(w) ==
  { LET r == w.inv
        err == IF x[1] # "none" THEN FaultErr(x[1]) ELSE x[2].err
    IN World(AfterListInline(Logged(Sign(r, x[1]), "ListRolePolicies",
                                    r.request.TargetRoleName, "", err),
                             err, x[2].items),
             w.iam, w.org) :
    x \in Faults(w.inv) \X IamListRolePolicies(w.iam, RoleKey(w.inv)) }

\* svc.DeleteRolePolicy, lines 158-164.
DeleteInlineAlone(w) ==
  { LET r == w.inv
        name == r.policyNames[r.i]
        resp == IamDeleteRolePolicy(w.iam, RoleKey(r), name)
        err == IF fault # "none" THEN FaultErr(fault) ELSE resp.err
    IN World(AfterDeleteInline(Logged(Sign(r, fault), "DeleteRolePolicy",
                                      r.request.TargetRoleName, name, err),
                               err),
             IF err = Nil THEN resp.state ELSE w.iam, w.org) :
    fault \in Faults(w.inv) }

\* svc.DeleteRole, lines 169-173.
DeleteRoleAlone(w) ==
  { LET r == w.inv
        resp == IamDeleteRole(w.iam, RoleKey(r))
        err == IF fault # "none" THEN FaultErr(fault) ELSE resp.err
    IN World(AfterDeleteRole(Logged(Sign(r, fault), "DeleteRole",
                                    r.request.TargetRoleName, "", err),
                             err),
             IF err = Nil THEN resp.state ELSE w.iam, w.org) :
    fault \in Faults(w.inv) }

StepsAlone(w) ==
  CASE w.inv.pc = "start" -> DispatchAlone(w)
    [] w.inv.pc = "load_config" -> LoadConfigAlone(w)
    [] w.inv.pc = "create_policy" -> CreatePolicyAlone(w)
    [] w.inv.pc = "attach_policy" -> AttachPolicyAlone(w)
    [] w.inv.pc = "list_attached" -> ListAttachedAlone(w)
    [] w.inv.pc = "detach" -> DetachAlone(w)
    [] w.inv.pc = "list_inline" -> ListInlineAlone(w)
    [] w.inv.pc = "delete_inline" -> DeleteInlineAlone(w)
    [] w.inv.pc = "delete_role" -> DeleteRoleAlone(w)
    [] OTHER -> { }

\* With every step of invocation p, its run alone takes the step that gives it
\* the same record, where the providers it has to itself allow one; where they
\* allow none, the run alone stays where the two parted.
Shadow(p) ==
  LET same == { w \in StepsAlone(solo[p]) : w.inv = inv'[p] } IN
  IF same = { } THEN UNCHANGED solo
  ELSE \E w \in same : solo' = [ solo EXCEPT ![p] = w ]

\* ------------------------------------------------------------ specification
\* The identities a request may find in the target account.
InitialRoles ==
  { NoRole } \cup
  { [ exists |-> TRUE, attached |-> A, inline |-> I ] :
      A \in SUBSET PolicyArns, I \in SUBSET InlineNames }

\* One invocation, of any request, on any identity, in a process where the
\* session can be created or in one where it cannot.
Init ==
  \E request \in Requests, role \in InitialRoles, sessionErr \in SessionErrs :
    /\ inv = (1 :> StartIn(request, sessionErr))
    /\ iam = (<< TargetAcct, VictimRole >> :> role)
    /\ iam0 = iam
    /\ org = [ policies |-> { }, attachments |-> { } ]
    /\ solo = [ p \in DOMAIN inv |-> World(inv[p], iam, org) ]

\* The invocations a behaviour may hold.
Invocations == { 1, 2 }

Next ==
  \/ \E p \in Invocations : p \in DOMAIN inv /\ Dispatch(p) /\ Shadow(p)
  \/ \E p \in Invocations : p \in DOMAIN inv /\ LoadConfig(p) /\ Shadow(p)
  \/ \E p \in Invocations : p \in DOMAIN inv /\ CreatePolicy(p) /\ Shadow(p)
  \/ \E p \in Invocations : p \in DOMAIN inv /\ AttachPolicy(p) /\ Shadow(p)
  \/ \E p \in Invocations : p \in DOMAIN inv /\ ListAttached(p) /\ Shadow(p)
  \/ \E p \in Invocations : p \in DOMAIN inv /\ Detach(p) /\ Shadow(p)
  \/ \E p \in Invocations : p \in DOMAIN inv /\ ListInline(p) /\ Shadow(p)
  \/ \E p \in Invocations : p \in DOMAIN inv /\ DeleteInline(p) /\ Shadow(p)
  \/ \E p \in Invocations : p \in DOMAIN inv /\ DeleteRoleCall(p) /\ Shadow(p)

Spec == Init /\ [][Next]_vars

\* The handler runs to its return: every SDK call answers or fails, so a step
\* that can be taken is taken.
LiveSpec == Init /\ [][Next]_vars /\ WF_vars(Next)

\* Two invocations at once, as two executions of the handler, in processes
\* where the session can be created: each of a request
\* that passes validation, the first on the identity victim of the target
\* account, the second on the same identity or on another identity of another
\* account, both in the organization of the same management account.
ConcurrentRequest(action, key) ==
  [ Action |-> action,
    TargetAccountID |-> key[1],
    RoleToAssume |-> AssumeRoleName,
    TargetRoleName |-> key[2],
    OrgManagementAccountID |-> MgmtAcct,
    Region |-> "" ]

VictimKey == << TargetAcct, VictimRole >>
OtherKey == << OtherAcct, OtherRole >>

ConcurrentRoles ==
  { [ exists |-> TRUE, attached |-> { }, inline |-> { } ],
    [ exists |-> TRUE, attached |-> { ManagedPool[1], ManagedPool[2] },
      inline |-> { InlinePool[1] } ] }

InitConcurrent ==
  \E a1, a2 \in { ApplySCP, DetachPolicies, DeleteRole },
     key2 \in { VictimKey, OtherKey },
     role \in ConcurrentRoles :
    /\ inv = (1 :> Start(ConcurrentRequest(a1, VictimKey))
                @@ 2 :> Start(ConcurrentRequest(a2, key2)))
    /\ iam = (VictimKey :> role
                @@ OtherKey :> [ exists |-> TRUE, attached |-> { ManagedPool[1] },
                                 inline |-> { InlinePool[1] } ])
    /\ iam0 = iam
    /\ org = [ policies |-> { }, attachments |-> { } ]
    /\ solo = [ p \in DOMAIN inv |-> World(inv[p], iam, org) ]

ConcurrentSpec == InitConcurrent /\ [][Next]_vars

\* ------------------------------------------------------------ claims
\* The error classes of the specification, as the code's error values.
IsValidationError(err) ==
  err \in { ErrRequired, ErrManagementAccount, ErrTargetRoleName }
IsInvalidActionError(err) == err = ErrInvalidAction
IsListError(err) ==
  \/ HasPrefix(err, "error listing attached policies for role ")
  \/ HasPrefix(err, "error listing inline policies for role ")
IsDetachError(err) == HasPrefix(err, "error detaching policy ")
IsInlinePolicyDeleteError(err) == HasPrefix(err, "error deleting inline policy ")
IsIdentityDeleteError(err) == HasPrefix(err, "error deleting role ")
IsPolicyCreationError(err) == HasPrefix(err, "error creating SCP: ")
IsPolicyAttachError(err) == HasPrefix(err, "error attaching SCP to account ")
IsConfigError(err) == HasPrefix(err, "error loading config file: ")

Done(r) == r.pc = "done"
Failed(r) == Done(r) /\ r.err # Nil
Succeeded(r) == Done(r) /\ r.err = Nil

\* The calls of one operation in an invocation's history, by position.
CallsOf(r, op) == { n \in 1..Len(r.calls) : r.calls[n].op = op }
OkCallsOf(r, op) == { n \in CallsOf(r, op) : r.calls[n].ok }
AllCallsOk(r) == \A n \in 1..Len(r.calls) : r.calls[n].ok

\* The invocation has touched neither the configuration file nor a provider.
Untouched(r) ==
  /\ r.configReads = 0
  /\ r.calls = << >>
  /\ r.assumed = << >>
  /\ iam = iam0
  /\ org.policies = { } /\ org.attachments = { }

\* C1: a request whose target_account_id or role_to_assume is empty ends with
\* the validation error "targetAccountID and roleToAssume are required",
\* whatever its action, and its run never reads the configuration file and
\* makes no STS, IAM or Organizations call.
C1_MissingRequiredRejected ==
  \A p \in DOMAIN inv :
    (inv[p].request.TargetAccountID = "" \/ inv[p].request.RoleToAssume = "") =>
      /\ inv[p].pc \in { "start", "done" }
      /\ Untouched(inv[p])
      /\ Done(inv[p]) =>
           /\ inv[p].err = ErrRequired
           /\ IsValidationError(inv[p].err)
           /\ inv[p].msg = ""

C1_Witness ==
  \E p \in DOMAIN inv :
    /\ Done(inv[p])
    /\ inv[p].request.Action = ApplySCP
    /\ inv[p].request.TargetAccountID # ""
    /\ inv[p].request.RoleToAssume = ""
    /\ inv[p].request.OrgManagementAccountID # ""
    /\ inv[p].err = ErrRequired

\* C2: an apply_scp request with an empty org_management_account_id (its
\* target_account_id and role_to_assume given) ends with the validation error
\* "managementAccount is required for apply_scp action"; its run never reads
\* the configuration file and makes no CreatePolicy or AttachPolicy call.
C2_MissingManagementAccountRejected ==
  \A p \in DOMAIN inv :
    LET r == inv[p] IN
    ( /\ r.request.Action = ApplySCP
      /\ r.request.TargetAccountID # "" /\ r.request.RoleToAssume # ""
      /\ r.request.OrgManagementAccountID = "" ) =>
        /\ r.pc \in { "start", "done" }
        /\ r.configReads = 0
        /\ CallsOf(r, "CreatePolicy") = { } /\ CallsOf(r, "AttachPolicy") = { }
        /\ r.calls = << >> /\ r.assumed = << >>
        /\ org.policies = { } /\ org.attachments = { }
        /\ Done(r) =>
             /\ r.err = ErrManagementAccount
             /\ IsValidationError(r.err)
             /\ r.msg = ""

\* C2 in the processes where the session of line 54 is created: there the
\* statement of C2 holds.
C2_RejectedOnceSessionCreated ==
  \A p \in DOMAIN inv :
    LET r == inv[p] IN
    ( /\ r.sessionErr = Nil
      /\ r.request.Action = ApplySCP
      /\ r.request.TargetAccountID # "" /\ r.request.RoleToAssume # ""
      /\ r.request.OrgManagementAccountID = "" ) =>
        /\ r.pc \in { "start", "done" }
        /\ r.configReads = 0
        /\ CallsOf(r, "CreatePolicy") = { } /\ CallsOf(r, "AttachPolicy") = { }
        /\ r.calls = << >> /\ r.assumed = << >>
        /\ org.policies = { } /\ org.attachments = { }
        /\ Done(r) =>
             /\ r.err = ErrManagementAccount
             /\ IsValidationError(r.err)
             /\ r.msg = ""

C2_Witness ==
  \E p \in DOMAIN inv :
    /\ Done(inv[p])
    /\ inv[p].request.Action = ApplySCP
    /\ inv[p].request.TargetAccountID # "" /\ inv[p].request.RoleToAssume # ""
    /\ inv[p].request.OrgManagementAccountID = ""
    /\ inv[p].request.TargetRoleName # ""
    /\ inv[p].err = ErrManagementAccount

\* C3: a detach_policies or delete_role request with an empty target_role_name
\* (its target_account_id and role_to_assume given) ends with the validation
\* error "targetRoleName is required ..."; its run makes no list, detach,
\* inline-delete or identity-delete call and leaves every identity as it was.
C3_MissingTargetRoleNameRejected ==
  \A p \in DOMAIN inv :
    LET r == inv[p] IN
    ( /\ r.request.Action \in { DetachPolicies, DeleteRole }
      /\ r.request.TargetAccountID # "" /\ r.request.RoleToAssume # ""
      /\ r.request.TargetRoleName = "" ) =>
        /\ r.pc \in { "start", "done" }
        /\ \A op \in { "ListAttachedRolePolicies", "DetachRolePolicy",
                       "ListRolePolicies", "DeleteRolePolicy", "DeleteRole" } :
             CallsOf(r, op) = { }
        /\ r.calls = << >> /\ r.assumed = << >>
        /\ iam = iam0
        /\ Done(r) =>
             /\ r.err = ErrTargetRoleName
             /\ IsValidationError(r.err)
             /\ r.msg = ""

\* C3 in the processes where the session of line 54 is created: there the
\* statement of C3 holds.
C3_RejectedOnceSessionCreated ==
  \A p \in DOMAIN inv :
    LET r == inv[p] IN
    ( /\ r.sessionErr = Nil
      /\ r.request.Action \in { DetachPolicies, DeleteRole }
      /\ r.request.TargetAccountID # "" /\ r.request.RoleToAssume # ""
      /\ r.request.TargetRoleName = "" ) =>
        /\ r.pc \in { "start", "done" }
        /\ \A op \in { "ListAttachedRolePolicies", "DetachRolePolicy",
                       "ListRolePolicies", "DeleteRolePolicy", "DeleteRole" } :
             CallsOf(r, op) = { }
        /\ r.calls = << >> /\ r.assumed = << >>
        /\ iam = iam0
        /\ Done(r) =>
             /\ r.err = ErrTargetRoleName
             /\ IsValidationError(r.err)
             /\ r.msg = ""

C3_Witness ==
  \E p \in DOMAIN inv :
    /\ Done(inv[p])
    /\ inv[p].request.Action = DeleteRole
    /\ inv[p].request.TargetAccountID # "" /\ inv[p].request.RoleToAssume # ""
    /\ inv[p].request.TargetRoleName = ""
    /\ inv[p].request.OrgManagementAccountID # ""
    /\ inv[p].err = ErrTargetRoleName

\* C4: a request whose action is none of apply_scp, detach_policies and
\* delete_role (its target_account_id and role_to_assume given) ends with the
\* error "invalid action", which is none of the validation errors of the
\* required fields; its run touches neither the configuration file nor a
\* provider.
C4_UnrecognizedActionRejected ==
  \A p \in DOMAIN inv :
    LET r == inv[p] IN
    ( /\ r.request.Action \notin { ApplySCP, DetachPolicies, DeleteRole }
      /\ r.request.TargetAccountID # "" /\ r.request.RoleToAssume # "" ) =>
        /\ r.pc \in { "start", "done" }
        /\ Untouched(r)
        /\ Done(r) =>
             /\ r.err = ErrInvalidAction
             /\ IsInvalidActionError(r.err)
             /\ r.msg = ""

\* C4 in the processes where the session of line 54 is created: there the
\* statement of C4 holds.
C4_RejectedOnceSessionCreated ==
  \A p \in DOMAIN inv :
    LET r == inv[p] IN
    ( /\ r.sessionErr = Nil
      /\ r.request.Action \notin { ApplySCP, DetachPolicies, DeleteRole }
      /\ r.request.TargetAccountID # "" /\ r.request.RoleToAssume # "" ) =>
        /\ r.pc \in { "start", "done" }
        /\ Untouched(r)
        /\ Done(r) =>
             /\ r.err = ErrInvalidAction
             /\ IsInvalidActionError(r.err)
             /\ r.msg = ""

C4_Witness ==
  \E p \in DOMAIN inv :
    /\ Done(inv[p])
    /\ inv[p].request.Action = "terminate_all"
    /\ inv[p].request.TargetAccountID # "" /\ inv[p].request.RoleToAssume # ""
    /\ inv[p].request.TargetRoleName # ""
    /\ inv[p].request.OrgManagementAccountID # ""
    /\ inv[p].err = ErrInvalidAction

\* ------------------------------------------------------------ manageRole claims
\* The identity of an invocation as it was at the start, and as it is now.
Held(r) == RoleOf(iam0, RoleKey(r))
Holds(r) == RoleOf(iam, RoleKey(r))

\* A provider failed a call of the invocation: it refused the role assumption
\* or it failed the call itself (as opposed to answering it by the state of
\* the identity: NoSuchEntity, DeleteConflict).
ProviderFailed(r) ==
  \E n \in 1..Len(r.calls) : r.calls[n].err \in { ErrAssumeRefused, ErrServiceFailure }

\* A finished run of manageRole on an identity that existed, with no provider
\* failure.
CleanRoleRun(r, action) ==
  /\ r.request.Action = action
  /\ Done(r)
  /\ r.calls # << >>
  /\ Held(r).exists
  /\ ~ProviderFailed(r)

\* The items of the calls of one operation, in the order of the calls.
RECURSIVE ItemsOf(_, _)
ItemsOf(calls, op) ==
  IF calls = << >> THEN << >>
  ELSE IF Head(calls).op = op
       THEN << Head(calls).item >> \o ItemsOf(Tail(calls), op)
       ELSE ItemsOf(Tail(calls), op)

MsgDetached(r) == "Policies detached from role " \o InRoleInAccount(r)
MsgDeleted(r) ==
  "Role " \o r.request.TargetRoleName
    \o " and its policies are detached and deleted in account "
    \o r.request.TargetAccountID

\* C5: on an identity holding N managed and M inline policies, with no provider
\* failure, a detach_policies run makes exactly N DetachRolePolicy calls and
\* exactly M DeleteRolePolicy calls, one per enumerated policy, makes no
\* DeleteRole call, and returns "Policies detached from role ..." (which does
\* not speak of deletion) with no error; the identity still exists.
C5_DetachPoliciesCalls ==
  \A p \in DOMAIN inv :
    LET r == inv[p] IN
    CleanRoleRun(r, DetachPolicies) =>
      /\ Cardinality(CallsOf(r, "DetachRolePolicy")) = Cardinality(Held(r).attached)
      /\ Cardinality(CallsOf(r, "DeleteRolePolicy")) = Cardinality(Held(r).inline)
      /\ ItemsOf(r.calls, "DetachRolePolicy") = r.attachedPolicies
      /\ ItemsOf(r.calls, "DeleteRolePolicy") = r.policyNames
      /\ CallsOf(r, "DeleteRole") = { }
      /\ r.err = Nil
      /\ r.msg = MsgDetached(r)
      /\ ~Contains(r.msg, "deleted")
      /\ Holds(r).exists

\* C5 on the identities whose policies the provider enumerates in one response:
\* there the statement of C5 holds.
C5_WithinOnePage ==
  \A p \in DOMAIN inv :
    LET r == inv[p] IN
    ( /\ CleanRoleRun(r, DetachPolicies)
      /\ Cardinality(Held(r).attached) <= PageSize
      /\ Cardinality(Held(r).inline) <= PageSize ) =>
      /\ Cardinality(CallsOf(r, "DetachRolePolicy")) = Cardinality(Held(r).attached)
      /\ Cardinality(CallsOf(r, "DeleteRolePolicy")) = Cardinality(Held(r).inline)
      /\ ItemsOf(r.calls, "DetachRolePolicy") = r.attachedPolicies
      /\ ItemsOf(r.calls, "DeleteRolePolicy") = r.policyNames
      /\ CallsOf(r, "DeleteRole") = { }
      /\ r.err = Nil
      /\ r.msg = MsgDetached(r)
      /\ ~Contains(r.msg, "deleted")
      /\ Holds(r).exists
      /\ Holds(r).attached = { } /\ Holds(r).inline = { }

\* C6: on an identity holding N managed and M inline policies, with no provider
\* failure, a delete_role run makes N DetachRolePolicy calls and M
\* DeleteRolePolicy calls, then exactly one DeleteRole call, which comes after
\* all of them have succeeded, and returns "Role ... and its policies are
\* detached and deleted in account ..." with no error.
C6_DeleteRoleCalls ==
  \A p \in DOMAIN inv :
    LET r == inv[p] IN
    CleanRoleRun(r, DeleteRole) =>
      /\ Cardinality(CallsOf(r, "DetachRolePolicy")) = Cardinality(Held(r).attached)
      /\ Cardinality(CallsOf(r, "DeleteRolePolicy")) = Cardinality(Held(r).inline)
      /\ ItemsOf(r.calls, "DetachRolePolicy") = r.attachedPolicies
      /\ ItemsOf(r.calls, "DeleteRolePolicy") = r.policyNames
      /\ CallsOf(r, "DeleteRole") = { Len(r.calls) }
      /\ \A n \in 1..(Len(r.calls) - 1) : r.calls[n].ok
      /\ r.err = Nil
      /\ r.msg = MsgDeleted(r)
      /\ Contains(r.msg, "detached") /\ Contains(r.msg, "deleted")
      /\ ~Holds(r).exists

\* C6 on the identities whose policies the provider enumerates in one response.
C6_WithinOnePage ==
  \A p \in DOMAIN inv :
    LET r == inv[p] IN
    ( /\ CleanRoleRun(r, DeleteRole)
      /\ Cardinality(Held(r).attached) <= PageSize
      /\ Cardinality(Held(r).inline) <= PageSize ) =>
      /\ Cardinality(CallsOf(r, "DetachRolePolicy")) = Cardinality(Held(r).attached)
      /\ Cardinality(CallsOf(r, "DeleteRolePolicy")) = Cardinality(Held(r).inline)
      /\ ItemsOf(r.calls, "DetachRolePolicy") = r.attachedPolicies
      /\ ItemsOf(r.calls, "DeleteRolePolicy") = r.policyNames
      /\ CallsOf(r, "DeleteRole") = { Len(r.calls) }
      /\ \A n \in 1..(Len(r.calls) - 1) : r.calls[n].ok
      /\ r.err = Nil
      /\ r.msg = MsgDeleted(r)
      /\ Contains(r.msg, "detached") /\ Contains(r.msg, "deleted")
      /\ ~Holds(r).exists

\* In every run, a DeleteRole call is made only by a delete_role run, once, and
\* only after every DetachRolePolicy and DeleteRolePolicy call of the run, one
\* per enumerated policy, has succeeded.
DeleteRoleOnlyAfterCleanup ==
  \A p \in DOMAIN inv :
    LET r == inv[p] IN
    \A n \in CallsOf(r, "DeleteRole") :
      /\ r.request.Action = DeleteRole
      /\ n = Len(r.calls)
      /\ \A m \in 1..(n - 1) : r.calls[m].ok /\ r.calls[m].op # "DeleteRole"
      /\ ItemsOf(r.calls, "DetachRolePolicy") = r.attachedPolicies
      /\ ItemsOf(r.calls, "DeleteRolePolicy") = r.policyNames

\* C7: if the k-th DetachRolePolicy call of a detach_policies or delete_role
\* run fails, it is the last call of the run: the k-1 detach calls before it
\* succeeded, on the first k-1 enumerated policies, which are no longer attached
\* to the identity while the others are; no ListRolePolicies, DeleteRolePolicy or
\* DeleteRole call is made; and the error returned is "error detaching policy
\* <k-th policy> from role <role> in account <account>: <provider error>".
C7_DetachFailureStops ==
  \A p \in DOMAIN inv :
    LET r == inv[p]
        detaches == CallsOf(r, "DetachRolePolicy") IN
    \A n \in detaches :
      ~r.calls[n].ok =>
        LET k == Cardinality({ m \in detaches : m <= n }) IN
        /\ Done(r) /\ n = Len(r.calls)
        /\ k \in 1..Len(r.attachedPolicies)
        /\ r.calls[n].item = r.attachedPolicies[k]
        /\ Cardinality(OkCallsOf(r, "DetachRolePolicy")) = k - 1
        /\ \A m \in detaches : m < n => r.calls[m].ok
        /\ ItemsOf(r.calls, "DetachRolePolicy") = SubSeq(r.attachedPolicies, 1, k)
        /\ Holds(r).attached =
             Held(r).attached \ { r.attachedPolicies[j] : j \in 1..(k - 1) }
        /\ \A op \in { "ListRolePolicies", "DeleteRolePolicy", "DeleteRole" } :
             CallsOf(r, op) = { }
        /\ Holds(r).inline = Held(r).inline /\ Holds(r).exists = Held(r).exists
        /\ r.msg = ""
        /\ IsDetachError(r.err)
        /\ r.err = "error detaching policy " \o r.attachedPolicies[k]
                     \o " from role " \o InRoleInAccount(r) \o ": " \o r.calls[n].err

\* A delete_role run whose second detach call failed after the first succeeded.
C7_Witness ==
  \E p \in DOMAIN inv :
    LET r == inv[p] IN
    /\ Done(r)
    /\ r.request.Action = DeleteRole
    /\ Len(r.calls) = 3
    /\ r.calls[2].op = "DetachRolePolicy" /\ r.calls[2].ok
    /\ r.calls[3].op = "DetachRolePolicy" /\ ~r.calls[3].ok
    /\ IsDetachError(r.err)
    /\ Contains(r.err, r.attachedPolicies[2])
    /\ r.attachedPolicies[1] \notin Holds(r).attached
    /\ r.attachedPolicies[2] \in Holds(r).attached

\* ------------------------------------------------------------ applySCP claims
\* C8: an apply_scp run that read a valid policy document makes one CreatePolicy
\* call, first and once, and, the policy created, one AttachPolicy call right
\* after it and nothing else; if the AttachPolicy call fails, the CreatePolicy
\* call had succeeded, the created policy stays in the organization, attached to
\* nothing, and the error returned is "error attaching SCP to account ...".
C8_CreateThenAttach ==
  \A p \in DOMAIN inv :
    LET r == inv[p] IN
    ( /\ r.request.Action = ApplySCP /\ Done(r)
      /\ r.configReads > 0 /\ r.scpPolicy = ScpDocument ) =>
      /\ CallsOf(r, "CreatePolicy") = { 1 }
      /\ r.calls[1].item = ScpDocument
      /\ CallsOf(r, "AttachPolicy") = IF r.calls[1].ok THEN { 2 } ELSE { }
      /\ Len(r.calls) = IF r.calls[1].ok THEN 2 ELSE 1
      /\ Succeeded(r) =>
           /\ AllCallsOk(r) /\ Len(r.calls) = 2
           /\ org.attachments = { << r.policyId, r.request.TargetAccountID >> }
      /\ (Len(r.calls) = 2 /\ ~r.calls[2].ok) =>
           /\ r.calls[1].ok
           /\ \E pol \in org.policies :
                pol.id = r.policyId /\ pol.content = ScpDocument /\ pol.name = ScpName
           /\ r.msg = ""
           /\ IsPolicyAttachError(r.err)
           /\ ~IsPolicyCreationError(r.err)
           /\ r.err = "error attaching SCP to account " \o r.request.TargetAccountID
                        \o ": " \o r.calls[2].err

\* An apply_scp run whose AttachPolicy call failed, the policy created.
C8_Witness ==
  \E p \in DOMAIN inv :
    LET r == inv[p] IN
    /\ Done(r) /\ r.request.Action = ApplySCP
    /\ Len(r.calls) = 2
    /\ r.calls[1].op = "CreatePolicy" /\ r.calls[1].ok
    /\ r.calls[2].op = "AttachPolicy" /\ ~r.calls[2].ok
    /\ IsPolicyAttachError(r.err)
    /\ Cardinality(org.policies) = 1
    /\ org.attachments = { }

\* ------------------------------------------------------------ credentials
\* The provider refused the role assumption of the invocation.
AssumeRefused(r) ==
  \E n \in 1..Len(r.calls) : r.calls[n].err = ErrAssumeRefused

\* C9 as stated: a run whose role assumption the provider refused ends with an
\* error of its own, which is neither the list error nor the policy-creation
\* error.
C9_CredentialErrorDistinct ==
  \A p \in DOMAIN inv :
    LET r == inv[p] IN
    ( AssumeRefused(r) /\ Done(r) ) =>
      /\ r.err # Nil
      /\ ~IsListError(r.err)
      /\ ~IsPolicyCreationError(r.err)

\* C9, amended: the role is assumed when the first SDK call is signed, so a
\* refused assumption fails that call, the only one of the run: the run returns
\* the list error "error listing attached policies for role ..." (detach_policies,
\* delete_role) or the policy-creation error "error creating SCP: ..."
\* (apply_scp), ending in the provider's refusal, and changes nothing.
C9_RefusalFailsFirstCall ==
  \A p \in DOMAIN inv :
    LET r == inv[p] IN
    AssumeRefused(r) =>
      /\ Done(r)
      /\ Len(r.calls) = 1 /\ ~r.calls[1].ok
      /\ r.assumed = << r.credsArn >> /\ ~r.hasCreds
      /\ r.msg = ""
      /\ HasSuffix(r.err, ": " \o ErrAssumeRefused)
      /\ IF r.request.Action = ApplySCP
         THEN /\ r.calls[1].op = "CreatePolicy"
              /\ IsPolicyCreationError(r.err)
              /\ r.err = "error creating SCP: " \o ErrAssumeRefused
         ELSE /\ r.calls[1].op = "ListAttachedRolePolicies"
              /\ IsListError(r.err)
              /\ r.err = "error listing attached policies for role "
                           \o InRoleInAccount(r) \o ": " \o ErrAssumeRefused
      /\ iam = iam0
      /\ org.policies = { } /\ org.attachments = { }

\* A delete_role run whose role assumption was refused.
C9_Witness ==
  \E p \in DOMAIN inv :
    LET r == inv[p] IN
    /\ Done(r) /\ r.request.Action = DeleteRole
    /\ AssumeRefused(r)
    /\ r.assumed = << RoleArn(TargetAcct, AssumeRoleName) >>
    /\ IsListError(r.err)

\* ------------------------------------------------------------ enumeration
\* C10: when a detach_policies or delete_role run returns success, the identity
\* holds none of the managed and inline policies it held when the run started.
C10_SuccessRemovesAll ==
  \A p \in DOMAIN inv :
    LET r == inv[p] IN
    ( IsRoleAction(r.request.Action) /\ Succeeded(r) ) =>
      /\ Holds(r).attached \cap Held(r).attached = { }
      /\ Holds(r).inline \cap Held(r).inline = { }

\* What the code does give on success: the policies it enumerated are removed,
\* and all of them are when the provider enumerated them in one response.
C10_SuccessRemovesEnumerated ==
  \A p \in DOMAIN inv :
    LET r == inv[p] IN
    ( IsRoleAction(r.request.Action) /\ Succeeded(r) ) =>
      /\ \A j \in 1..Len(r.attachedPolicies) :
           r.attachedPolicies[j] \notin Holds(r).attached
      /\ \A j \in 1..Len(r.policyNames) : r.policyNames[j] \notin Holds(r).inline
      /\ Cardinality(Held(r).attached) <= PageSize => Holds(r).attached = { }
      /\ Cardinality(Held(r).inline) <= PageSize => Holds(r).inline = { }

\* ------------------------------------------------------------ credential scope
\* The role a run is to assume: in the management account for apply_scp, in the
\* target account for detach_policies and delete_role.
ExpectedRoleArn(request) ==
  "arn:aws:iam::"
    \o (IF request.Action = ApplySCP
        THEN request.OrgManagementAccountID ELSE request.TargetAccountID)
    \o ":role/" \o request.RoleToAssume

\* The SDK rejected the call before signing it.
RejectedUnsigned(call) == call.err = ErrInvalidParameter

\* C11: a run assumes one role only, and every call it makes is made with the
\* credentials of that role: the role arn:aws:iam::<org_management_account_id>:
\* role/<role_to_assume> for apply_scp, whose ARN does not hold the
\* target_account_id, and arn:aws:iam::<target_account_id>:role/<role_to_assume>
\* for detach_policies and delete_role. In an apply_scp run the
\* target_account_id is the target of the AttachPolicy call and of no other
\* call. A run that signed a call assumed its role exactly once.
C11_OneRolePerRun ==
  \A p \in DOMAIN inv :
    LET r == inv[p]
        arn == ExpectedRoleArn(r.request) IN
    /\ \A n \in 1..Len(r.assumed) : r.assumed[n] = arn
    /\ Len(r.assumed) <= 1
    /\ \A n \in 1..Len(r.calls) :
         /\ r.calls[n].creds = arn
         /\ ~RejectedUnsigned(r.calls[n]) => r.assumed = << arn >>
         /\ r.request.Action = ApplySCP =>
              /\ r.calls[n].op \in { "CreatePolicy", "AttachPolicy" }
              /\ (r.calls[n].target = r.request.TargetAccountID)
                   <=> (r.calls[n].op = "AttachPolicy")
         /\ IsRoleAction(r.request.Action) =>
              r.calls[n].op \notin { "CreatePolicy", "AttachPolicy" }
    /\ (r.request.Action = ApplySCP /\ r.calls # << >>) =>
         /\ HasPrefix(arn, "arn:aws:iam::" \o r.request.OrgManagementAccountID \o ":role/")
         /\ ~Contains(arn, r.request.TargetAccountID)
    /\ (IsRoleAction(r.request.Action) /\ r.calls # << >>) =>
         /\ HasPrefix(arn, "arn:aws:iam::" \o r.request.TargetAccountID \o ":role/")
         /\ Contains(arn, r.request.TargetAccountID)

\* A successful apply_scp run: two calls under the management account's role.
C11_Witness ==
  \E p \in DOMAIN inv :
    LET r == inv[p] IN
    /\ Succeeded(r) /\ r.request.Action = ApplySCP
    /\ Len(r.calls) = 2
    /\ r.assumed = << "arn:aws:iam::999999999999:role/KillSwitchRole" >>
    /\ r.calls[2].creds = "arn:aws:iam::999999999999:role/KillSwitchRole"
    /\ r.calls[2].target = "111111111111"

\* ------------------------------------------------------------ region
\* C13: a request with an empty region whose target_account_id and
\* role_to_assume are given gets its session created with "us-east-1": the
\* empty region is no cause of a validation error, and HandleRequest dispatches
\* the request to the same next step, with the same state, as it does the same
\* request with region = "us-east-1".
C13_DefaultRegionUsed ==
  \A p \in DOMAIN inv :
    LET r == inv[p]
        request == r.request
        explicit == [ request EXCEPT !.Region = "us-east-1" ] IN
    ( /\ request.TargetAccountID # "" /\ request.RoleToAssume # ""
      /\ r.pc # "start" ) =>
        /\ r.region = IF request.Region = "" THEN "us-east-1" ELSE request.Region
        /\ request.Region = "" =>
             /\ r.region = DefaultRegion
             /\ r.err # ErrRequired
             /\ IsValidationError(r.err) =>
                  \/ request.Action = ApplySCP /\ request.OrgManagementAccountID = ""
                  \/ request.Action \in { DetachPolicies, DeleteRole }
                       /\ request.TargetRoleName = ""
             /\ HandleRequest(StartIn(request, r.sessionErr)) =
                  [ HandleRequest(StartIn(explicit, r.sessionErr))
                      EXCEPT !.request = request ]

\* A run that succeeded on a request without region.
C13_Witness ==
  \E p \in DOMAIN inv :
    LET r == inv[p] IN
    /\ Succeeded(r)
    /\ r.request.Region = ""
    /\ r.request.Action = DetachPolicies
    /\ r.region = "us-east-1"
    /\ r.calls # << >>

\* ------------------------------------------------------------ inline policies
\* What C14 says of a failed DeleteRolePolicy call at position n of the run r,
\* apart from the state of the managed policies.
InlineDeleteFailureStops(r, n) ==
  LET deletes == CallsOf(r, "DeleteRolePolicy")
      j == Cardinality({ m \in deletes : m <= n }) IN
  /\ Done(r) /\ n = Len(r.calls)
  /\ j \in 1..Len(r.policyNames)
  /\ r.calls[n].item = r.policyNames[j]
  /\ Cardinality(OkCallsOf(r, "DeleteRolePolicy")) = j - 1
  /\ ItemsOf(r.calls, "DeleteRolePolicy") = SubSeq(r.policyNames, 1, j)
  /\ Holds(r).inline = Held(r).inline \ { r.policyNames[m] : m \in 1..(j - 1) }
  /\ CallsOf(r, "DeleteRole") = { }
  /\ Holds(r).exists = Held(r).exists
  /\ r.msg = ""
  /\ IsInlinePolicyDeleteError(r.err)
  /\ r.err = "error deleting inline policy " \o r.policyNames[j]
               \o " from role " \o InRoleInAccount(r) \o ": " \o r.calls[n].err

\* C14: if the j-th DeleteRolePolicy call of a detach_policies or delete_role
\* run fails, then every managed policy the identity held has been detached,
\* exactly j-1 inline policies were deleted and are still deleted, no DeleteRole
\* call is made even when the action is delete_role, and the error returned is
\* "error deleting inline policy <j-th name> from role ...".
C14_InlineDeleteFailureStops ==
  \A p \in DOMAIN inv :
    LET r == inv[p] IN
    \A n \in CallsOf(r, "DeleteRolePolicy") :
      ~r.calls[n].ok =>
        /\ InlineDeleteFailureStops(r, n)
        /\ Cardinality(OkCallsOf(r, "DetachRolePolicy")) = Cardinality(Held(r).attached)
        /\ Holds(r).attached = { }

\* C14 with "all managed policies" read as the policies of the response the run
\* enumerated: there the statement holds.
C14_EnumeratedDetached ==
  \A p \in DOMAIN inv :
    LET r == inv[p] IN
    \A n \in CallsOf(r, "DeleteRolePolicy") :
      ~r.calls[n].ok =>
        /\ InlineDeleteFailureStops(r, n)
        /\ ItemsOf(r.calls, "DetachRolePolicy") = r.attachedPolicies
        /\ Cardinality(OkCallsOf(r, "DetachRolePolicy")) = Len(r.attachedPolicies)
        /\ \A m \in 1..Len(r.attachedPolicies) :
             r.attachedPolicies[m] \notin Holds(r).attached
        /\ Cardinality(Held(r).attached) <= PageSize => Holds(r).attached = { }

\* A delete_role run whose second inline delete failed after the first.
C14_Reached ==
  \E p \in DOMAIN inv :
    LET r == inv[p] IN
    /\ Done(r) /\ r.request.Action = DeleteRole
    /\ Cardinality(CallsOf(r, "DeleteRolePolicy")) = 2
    /\ Cardinality(OkCallsOf(r, "DeleteRolePolicy")) = 1
    /\ r.attachedPolicies # << >>
    /\ IsInlinePolicyDeleteError(r.err)

\* What C15 says of a run whose ListAttachedRolePolicies call failed.
ManagedListFailureStops(r) ==
  /\ Done(r) /\ Len(r.calls) = 1
  /\ \A op \in { "DetachRolePolicy", "ListRolePolicies", "DeleteRolePolicy",
                 "DeleteRole" } : CallsOf(r, op) = { }
  /\ r.msg = ""
  /\ IsListError(r.err)
  /\ r.err = "error listing attached policies for role " \o InRoleInAccount(r)
               \o ": " \o r.calls[1].err
  /\ iam = iam0

\* What C15 says of a run whose ListRolePolicies call, at position n, failed,
\* apart from the state of the managed policies.
InlineListFailureStops(r, n) ==
  /\ Done(r) /\ n = Len(r.calls)
  /\ CallsOf(r, "DeleteRolePolicy") = { } /\ CallsOf(r, "DeleteRole") = { }
  /\ \A m \in 1..(n - 1) : r.calls[m].ok
  /\ r.msg = ""
  /\ IsListError(r.err)
  /\ r.err = "error listing inline policies for role " \o InRoleInAccount(r)
               \o ": " \o r.calls[n].err
  /\ Holds(r).inline = Held(r).inline /\ Holds(r).exists = Held(r).exists

\* C15: a detach_policies or delete_role run whose ListAttachedRolePolicies call
\* fails returns the list error having made no DetachRolePolicy,
\* ListRolePolicies, DeleteRolePolicy or DeleteRole call; one whose
\* ListRolePolicies call fails returns the list error after every managed policy
\* the identity held was detached, having made no DeleteRolePolicy or DeleteRole
\* call.
C15_ListFailureStops ==
  \A p \in DOMAIN inv :
    LET r == inv[p] IN
    /\ \A n \in CallsOf(r, "ListAttachedRolePolicies") :
         ~r.calls[n].ok => ManagedListFailureStops(r)
    /\ \A n \in CallsOf(r, "ListRolePolicies") :
         ~r.calls[n].ok =>
           /\ InlineListFailureStops(r, n)
           /\ Cardinality(OkCallsOf(r, "DetachRolePolicy")) = Cardinality(Held(r).attached)
           /\ Holds(r).attached = { }

\* C15 with "all managed policies" read as the policies of the response the run
\* enumerated: there the statement holds.
C15_EnumeratedDetached ==
  \A p \in DOMAIN inv :
    LET r == inv[p] IN
    /\ \A n \in CallsOf(r, "ListAttachedRolePolicies") :
         ~r.calls[n].ok => ManagedListFailureStops(r)
    /\ \A n \in CallsOf(r, "ListRolePolicies") :
         ~r.calls[n].ok =>
           /\ InlineListFailureStops(r, n)
           /\ ItemsOf(r.calls, "DetachRolePolicy") = r.attachedPolicies
           /\ Cardinality(OkCallsOf(r, "DetachRolePolicy")) = Len(r.attachedPolicies)
           /\ \A m \in 1..Len(r.attachedPolicies) :
                r.attachedPolicies[m] \notin Holds(r).attached
           /\ Cardinality(Held(r).attached) <= PageSize => Holds(r).attached = { }

\* A run whose inline enumeration failed after two detach calls.
C15_Reached ==
  \E p \in DOMAIN inv :
    LET r == inv[p] IN
    /\ Done(r) /\ Len(r.calls) = 4
    /\ r.calls[4].op = "ListRolePolicies" /\ ~r.calls[4].ok
    /\ IsListError(r.err)

\* ------------------------------------------------------------ configuration
\* The request passes the checks of HandleRequest for apply_scp.
ValidApplySCP(request) ==
  /\ request.Action = ApplySCP
  /\ request.TargetAccountID # "" /\ request.RoleToAssume # ""
  /\ request.OrgManagementAccountID # ""

\* The file cannot be read, or its content is not JSON.
Unloadable(file) == ~file.present \/ file.content = BadJson

\* C16: a run reads switch.conf, once, if and only if its action is apply_scp
\* and it passed validation, that is went past the checks of lines 45 and 60
\* (which a run that panics at line 54 does not, and such a run reads nothing),
\* never for detach_policies or delete_role;
\* and when the file is absent or is not JSON, the run ends there with the error
\* "error loading config file: ...", as a returned value with an empty message,
\* having made no CreatePolicy or AttachPolicy call.
C16_ConfigReadOnlyForApplySCP ==
  \A p \in DOMAIN inv :
    LET r == inv[p] IN
    /\ r.configReads \in { 0, 1 }
    /\ r.configReads = 1 => ValidApplySCP(r.request)
    /\ r.request.Action \in { DetachPolicies, DeleteRole } => r.configReads = 0
    /\ ( ValidApplySCP(r.request)
         /\ r.pc \notin { "start", "load_config", "panicked" } ) =>
         r.configReads = 1
    /\ r.pc = "panicked" => r.configReads = 0 /\ r.calls = << >>
    /\ Done(r) => ( r.configReads = 1 <=> ValidApplySCP(r.request) )
    /\ r.pc = "load_config" =>
         /\ ValidApplySCP(r.request) /\ r.configReads = 0 /\ r.calls = << >>
         /\ \A file \in ConfigFiles :
              LET s == LoadConfigResult(r, file) IN
              /\ s.configReads = 1
              /\ Unloadable(file) <=> loadConfig(ConfigFileName, file).err # Nil
              /\ Unloadable(file) =>
                   /\ Done(s) /\ IsConfigError(s.err) /\ s.msg = ""
                   /\ s.err = "error loading config file: "
                                \o loadConfig(ConfigFileName, file).err
                   /\ s.calls = << >> /\ s.assumed = << >>
              /\ ~Unloadable(file) => s.pc = "create_policy" /\ s.err = Nil
    /\ ( Done(r) /\ IsConfigError(r.err) ) =>
         /\ r.msg = "" /\ r.configReads = 1
         /\ CallsOf(r, "CreatePolicy") = { } /\ CallsOf(r, "AttachPolicy") = { }
         /\ r.calls = << >> /\ r.assumed = << >>
         /\ org.policies = { } /\ org.attachments = { }
    /\ ( Done(r) /\ r.configReads = 1 /\ r.calls = << >> ) => IsConfigError(r.err)

\* An apply_scp run that found no switch.conf.
C16_Witness ==
  \E p \in DOMAIN inv :
    LET r == inv[p] IN
    /\ Done(r) /\ r.request.Action = ApplySCP
    /\ r.configReads = 1
    /\ r.err = "error loading config file: open switch.conf: no such file or directory"
    /\ r.calls = << >>

\* ------------------------------------------------------------ policy creation
MsgApplied(account, id) ==
  "SCP applied to account " \o account \o " with policy ID " \o id

\* C17: in an apply_scp run, a failed CreatePolicy call ends the run with the
\* error "error creating SCP: <provider error>" and no AttachPolicy call is
\* made; after a successful one, the AttachPolicy call names the identifier of
\* the policy created and the target_account_id of the request, and the message
\* of a successful run is "SCP applied to account <that account> with policy ID
\* <that identifier>".
C17_CreateFailureStops ==
  \A p \in DOMAIN inv :
    LET r == inv[p] IN
    r.request.Action = ApplySCP =>
      /\ \A n \in CallsOf(r, "CreatePolicy") :
           ~r.calls[n].ok =>
             /\ Done(r) /\ n = Len(r.calls)
             /\ CallsOf(r, "AttachPolicy") = { }
             /\ r.msg = ""
             /\ IsPolicyCreationError(r.err)
             /\ ~IsPolicyAttachError(r.err)
             /\ r.err = "error creating SCP: " \o r.calls[n].err
             /\ org.attachments = { }
      /\ \A n \in CallsOf(r, "AttachPolicy") :
           /\ n = 2 /\ r.calls[1].op = "CreatePolicy" /\ r.calls[1].ok
           /\ r.policyId # ""
           /\ \E pol \in org.policies :
                /\ pol.id = r.policyId /\ pol.name = ScpName
                /\ pol.content = r.calls[1].item
           /\ r.calls[n].item = r.policyId
           /\ r.calls[n].target = r.request.TargetAccountID
      /\ Succeeded(r) =>
           /\ Len(r.calls) = 2 /\ AllCallsOk(r)
           /\ r.msg = MsgApplied(r.calls[2].target, r.calls[2].item)
           /\ r.msg = MsgApplied(r.request.TargetAccountID, r.policyId)
           /\ Contains(r.msg, r.request.TargetAccountID)
           /\ Contains(r.msg, r.policyId)
           /\ << r.policyId, r.request.TargetAccountID >> \in org.attachments

\* An apply_scp run whose CreatePolicy call the provider failed.
C17_Witness ==
  \E p \in DOMAIN inv :
    LET r == inv[p] IN
    /\ Done(r) /\ r.request.Action = ApplySCP
    /\ Len(r.calls) = 1
    /\ r.calls[1].op = "CreatePolicy" /\ r.calls[1].err = ErrServiceFailure
    /\ r.err = "error creating SCP: " \o ErrServiceFailure
    /\ org.policies = { }

\* An apply_scp run that created and attached the policy.
C17_Applied ==
  \E p \in DOMAIN inv :
    LET r == inv[p] IN
    /\ Succeeded(r) /\ r.request.Action = ApplySCP
    /\ r.msg = MsgApplied(TargetAcct, PolicyIds[1])
    /\ r.calls[2].item = PolicyIds[1] /\ r.calls[2].target = TargetAcct

\* ------------------------------------------------------------ required fields
\* C19: of the requests that give target_account_id and role_to_assume,
\* HandleRequest rejects for a missing field exactly the detach_policies and
\* delete_role requests without target_role_name and the apply_scp requests
\* without org_management_account_id: target_role_name is not required for
\* apply_scp, nor org_management_account_id for the two role actions.
C19_RequiredPerAction ==
  \A p \in DOMAIN inv :
    LET r == inv[p]
        request == r.request IN
    ( /\ request.TargetAccountID # "" /\ request.RoleToAssume # ""
      /\ r.pc # "start" ) =>
        /\ ( request.Action \in { DetachPolicies, DeleteRole } ) =>
             /\ r.err = ErrTargetRoleName <=> request.TargetRoleName = ""
             /\ r.err # ErrManagementAccount
             /\ request.TargetRoleName # "" => ~IsValidationError(r.err)
             /\ request.TargetRoleName # "" =>
                  r.pc = "list_attached" \/ r.calls # << >>
        /\ request.Action = ApplySCP =>
             /\ r.err = ErrManagementAccount <=> request.OrgManagementAccountID = ""
             /\ r.err # ErrTargetRoleName
             /\ request.OrgManagementAccountID # "" =>
                  /\ ~IsValidationError(r.err)
                  /\ r.configReads = 1 \/ r.pc = "load_config"
        /\ request.Action \notin { ApplySCP, DetachPolicies, DeleteRole } =>
             ~IsValidationError(r.err)
        /\ IsValidationError(r.err) =>
             /\ Done(r) /\ r.msg = ""
             /\ r.configReads = 0 /\ r.calls = << >>

\* C19 in the processes where the session of line 54 is created: there the
\* statement of C19 holds.
C19_RequiredOnceSessionCreated ==
  \A p \in DOMAIN inv :
    LET r == inv[p]
        request == r.request IN
    ( /\ r.sessionErr = Nil
      /\ request.TargetAccountID # "" /\ request.RoleToAssume # ""
      /\ r.pc # "start" ) =>
        /\ ( request.Action \in { DetachPolicies, DeleteRole } ) =>
             /\ r.err = ErrTargetRoleName <=> request.TargetRoleName = ""
             /\ r.err # ErrManagementAccount
             /\ request.TargetRoleName # "" => ~IsValidationError(r.err)
             /\ request.TargetRoleName # "" =>
                  r.pc = "list_attached" \/ r.calls # << >>
        /\ request.Action = ApplySCP =>
             /\ r.err = ErrManagementAccount <=> request.OrgManagementAccountID = ""
             /\ r.err # ErrTargetRoleName
             /\ request.OrgManagementAccountID # "" =>
                  /\ ~IsValidationError(r.err)
                  /\ r.configReads = 1 \/ r.pc = "load_config"
        /\ request.Action \notin { ApplySCP, DetachPolicies, DeleteRole } =>
             ~IsValidationError(r.err)
        /\ IsValidationError(r.err) =>
             /\ Done(r) /\ r.msg = ""
             /\ r.configReads = 0 /\ r.calls = << >>

\* An apply_scp run without target_role_name that went on to create the
\* policy, and a delete_role run without org_management_account_id that went on
\* to the identity, are both reached; the witness is the second.
C19_Witness ==
  \E p \in DOMAIN inv :
    LET r == inv[p] IN
    /\ Succeeded(r) /\ r.request.Action = DeleteRole
    /\ r.request.OrgManagementAccountID = ""
    /\ r.request.TargetRoleName # ""
    /\ CallsOf(r, "DeleteRole") # { }

C19_ApplyWithoutRoleName ==
  \E p \in DOMAIN inv :
    LET r == inv[p] IN
    /\ Succeeded(r) /\ r.request.Action = ApplySCP
    /\ r.request.TargetRoleName = ""
    /\ r.request.OrgManagementAccountID # ""
    /\ CallsOf(r, "AttachPolicy") # { }

\* ------------------------------------------------------------ termination
\* The most provider calls a run makes: two enumerations, one call per
\* enumerated policy, one DeleteRole.
MaxCalls(r) == Len(r.attachedPolicies) + Len(r.policyNames) + 3

\* One outcome, set at the return and at no other time; a failed call is the
\* last call of its run and its error is the one returned; no call is made
\* twice; success needs every call to have succeeded.
OneOutcome(r) ==
  /\ Done(r) => \/ r.err = Nil /\ r.msg # ""
                \/ r.err # Nil /\ r.msg = ""
  /\ ~Done(r) => r.err = Nil /\ r.msg = ""
  /\ Len(r.calls) <= MaxCalls(r)
  /\ Len(r.calls) <= 2 * PageSize + 3
  /\ \A n \in 1..Len(r.calls) :
       /\ r.calls[n].ok <=> r.calls[n].err = Nil
       /\ ~r.calls[n].ok =>
            /\ n = Len(r.calls)
            /\ Failed(r)
            /\ HasSuffix(r.err, ": " \o r.calls[n].err)
       /\ \A m \in 1..(n - 1) :
            r.calls[m].op = r.calls[n].op => r.calls[m].item # r.calls[n].item
  /\ Succeeded(r) => AllCallsOk(r)

\* A finished run takes no further step.
OutcomeFinal ==
  \A p \in DOMAIN inv : Done(inv[p]) => inv'[p] = inv[p]

\* C18: every invocation terminates, after at most one call per enumerated
\* policy and three more, with exactly one outcome, a message and no error or
\* an error and no message; no call follows a failed call, no call is made
\* twice, a run that succeeded made only successful calls, and a finished run
\* does nothing more.
C18_TerminatesWithOneOutcome ==
  /\ [](\A p \in DOMAIN inv : OneOutcome(inv[p]))
  /\ [][OutcomeFinal]_vars
  /\ <>[](\A p \in DOMAIN inv : Done(inv[p]))

\* A run that panicked did so at the creation of the session, before any read
\* of the file and any provider call, and returned nothing.
PanicAtSession(r) ==
  r.pc = "panicked" =>
    /\ r.sessionErr # Nil /\ r.panic = r.sessionErr
    /\ r.msg = "" /\ r.err = Nil
    /\ r.configReads = 0 /\ r.calls = << >> /\ r.assumed = << >>

\* C18 but for the panic of session.Must: every invocation ends, either
\* returned with one outcome or panicked at line 54; the rest of the statement
\* of C18 holds.
C18_OneOutcomeOrPanic ==
  /\ [](\A p \in DOMAIN inv : OneOutcome(inv[p]) /\ PanicAtSession(inv[p]))
  /\ [][OutcomeFinal]_vars
  /\ <>[](\A p \in DOMAIN inv : Done(inv[p]) \/ inv[p].pc = "panicked")

\* A request for an unknown action, its required fields given, in a process
\* where the session cannot be created: the handler panicked.
C18_Panicked ==
  \E p \in DOMAIN inv :
    /\ inv[p].pc = "panicked"
    /\ inv[p].request.Action = "terminate_all"
    /\ inv[p].err = Nil /\ inv[p].msg = ""

\* A delete_role run that ended at a failed DeleteRole call, its seventh.
C18_Witness ==
  \E p \in DOMAIN inv :
    LET r == inv[p] IN
    /\ Failed(r)
    /\ Len(r.calls) = 2 * PageSize + 3
    /\ ~r.calls[Len(r.calls)].ok
    /\ \A n \in 1..(Len(r.calls) - 1) : r.calls[n].ok

\* ------------------------------------------------------------ alone
\* One invocation is alone with the providers: its run alone is its run.
AloneIsAlone ==
  Cardinality(DOMAIN inv) = 1 =>
    \A p \in DOMAIN inv : solo[p] = World(inv[p], iam, org)

\* ------------------------------------------------------------ concurrency
\* Two invocations whose requests name different target accounts.
DifferentTargets(p, q) ==
  /\ p # q
  /\ inv[p].request.TargetAccountID # inv[q].request.TargetAccountID

\* The invocation made, as far as it has run, the calls it makes alone, with
\* the same answers, and has the same outcome.
AsAlone(p) == solo[p].inv = inv[p]

\* C12: of two concurrent invocations whose requests name different targets,
\* each makes the provider calls, and returns the outcome, of a run it makes
\* alone; its calls are made with the role of its own request and name the
\* account or identity of its own request only.
C12_ConcurrentAsAlone ==
  \A p, q \in DOMAIN inv :
    DifferentTargets(p, q) =>
      /\ AsAlone(p)
      /\ \A n \in 1..Len(inv[p].calls) :
           /\ inv[p].calls[n].creds = ExpectedRoleArn(inv[p].request)
           /\ inv[p].calls[n].target \in
                { "", inv[p].request.TargetAccountID, inv[p].request.TargetRoleName }

\* C12 for the pairs that do not both create the policy in one organization:
\* there the statement holds, and an identity changes only by the successful
\* calls of an invocation that names it.
C12_RoleRunsAsAlone ==
  \A p, q \in DOMAIN inv :
    ( /\ DifferentTargets(p, q)
      /\ ~ ( inv[p].request.Action = ApplySCP /\ inv[q].request.Action = ApplySCP ) ) =>
      /\ AsAlone(p)
      /\ \A n \in 1..Len(inv[p].calls) :
           /\ inv[p].calls[n].creds = ExpectedRoleArn(inv[p].request)
           /\ inv[p].calls[n].target \in
                { "", inv[p].request.TargetAccountID, inv[p].request.TargetRoleName }
      /\ IsRoleAction(inv[p].request.Action) =>
           /\ solo[p].iam[RoleKey(inv[p])] = iam[RoleKey(inv[p])]
           /\ solo[p].iam[RoleKey(inv[q])] = iam0[RoleKey(inv[q])]

\* Two role runs on different identities, both ended, one in success.
C12_RoleRunsReached ==
  /\ DOMAIN inv = { 1, 2 }
  /\ DifferentTargets(1, 2)
  /\ inv[1].request.Action = DeleteRole /\ Succeeded(inv[1])
  /\ inv[2].request.Action = DetachPolicies /\ Succeeded(inv[2])
  /\ Len(inv[1].calls) = 6

\* Two invocations of detach_policies or delete_role on one identity.
SameIdentity(p, q) ==
  /\ p # q
  /\ IsRoleAction(inv[p].request.Action) /\ IsRoleAction(inv[q].request.Action)
  /\ RoleKey(inv[p]) = RoleKey(inv[q])

\* C20: of two overlapping detach_policies or delete_role invocations on one
\* identity, one that returns success made a successful DetachRolePolicy or
\* DeleteRolePolicy call for each policy it enumerated, and the other made no
\* successful call for any of them; no policy it enumerated is still attached
\* to the identity; and after a successful delete_role the identity does not
\* exist.
C20_SuccessByOwnCalls ==
  \A p, q \in DOMAIN inv :
    ( SameIdentity(p, q) /\ Succeeded(inv[p]) ) =>
      LET r == inv[p]
          o == inv[q] IN
      /\ AllCallsOk(r)
      /\ ItemsOf(r.calls, "DetachRolePolicy") = r.attachedPolicies
      /\ ItemsOf(r.calls, "DeleteRolePolicy") = r.policyNames
      /\ \A n \in OkCallsOf(o, "DetachRolePolicy") :
           \A m \in 1..Len(r.attachedPolicies) : o.calls[n].item # r.attachedPolicies[m]
      /\ \A n \in OkCallsOf(o, "DeleteRolePolicy") :
           \A m \in 1..Len(r.policyNames) : o.calls[n].item # r.policyNames[m]
      /\ \A m \in 1..Len(r.attachedPolicies) :
           r.attachedPolicies[m] \notin Holds(r).attached
      /\ \A m \in 1..Len(r.policyNames) : r.policyNames[m] \notin Holds(r).inline
      /\ r.request.Action = DeleteRole =>
           /\ ~Holds(r).exists
           /\ OkCallsOf(r, "DeleteRole") # { }
           /\ OkCallsOf(o, "DeleteRole") = { }

\* Two delete_role runs on one identity that both enumerated its policies: one
\* succeeded, the other was refused the detach of a policy already detached.
C20_Witness ==
  /\ DOMAIN inv = { 1, 2 }
  /\ SameIdentity(1, 2)
  /\ inv[1].request.Action = DeleteRole /\ inv[2].request.Action = DeleteRole
  /\ Succeeded(inv[1]) /\ Len(inv[1].attachedPolicies) = 2
  /\ Failed(inv[2]) /\ Len(inv[2].attachedPolicies) = 2
  /\ IsDetachError(inv[2].err)
  /\ Contains(inv[2].err, ErrNoSuchEntity)

====
